---- MODULE Spec2Model ----
(***************************************************************************)
(* Credential and session-issuance core of main.py: password hashing and   *)
(* verification, bearer-token minting, the Admin/User tables with their    *)
(* unique columns, the startup admin seeding and the register/login        *)
(* handlers.                                                                *)
(*                                                                         *)
(* Python str values are sequences of one-character strings, so that       *)
(* concatenation, split('$') and prefixing are computed, not assumed.      *)
(***************************************************************************)
EXTENDS Integers, Sequences, FiniteSets, TLC

VARIABLES users, admins, serving, inflight, resp, plaintext, call

vars == <<users, admins, serving, inflight, resp, plaintext, call>>

-----------------------------------------------------------------------------
(* Bounds of the model *)

\* longest arbitrary stored value handed to verify_password directly
MaxStoredLen == 3
\* longest plaintext handed to the hasher directly
MaxPwLen == 2
\* clock readings range over 0..MaxTime (minutes)
MaxTime == 1
\* worker processes sharing the database file
NProcs == 2

-----------------------------------------------------------------------------
(* Strings *)

RECURSIVE Strs(_, _)
\* all sequences over alphabet A of length exactly n
Strs(A, n) ==
    IF n = 0 THEN {<<>>}
    ELSE {<<c>> \o s : c \in A, s \in Strs(A, n - 1)}

StrsUpTo(A, n) == UNION {Strs(A, k) : k \in 0..n}

HexDigits == {"0", "1", "2", "3", "4", "5", "6", "7", "8", "9",
              "a", "b", "c", "d", "e", "f"}

IsHex(s) == \A i \in 1..Len(s) : s[i] \in HexDigits

Count(s, c) == Cardinality({i \in 1..Len(s) : s[i] = c})

\* str.split(sep): the list of fields between the occurrences of sep;
\* always at least one field ("" splits into [""]).
RECURSIVE split(_, _)
split(s, sep) ==
    IF \A i \in 1..Len(s) : s[i] # sep THEN <<s>>
    ELSE LET k == CHOOSE i \in 1..Len(s) :
                      s[i] = sep /\ \A j \in 1..(i - 1) : s[j] # sep
         IN <<SubSeq(s, 1, k - 1)>> \o split(SubSeq(s, k + 1, Len(s)), sep)

-----------------------------------------------------------------------------
(* Credential hasher *)

\* Two hex digits per character (its code point), for the characters the
\* model uses.
HexOf ==
    [c \in {"$", "0", "1", "2", "3", "a", "b", "d", "f", "i", "m", "n", "o"} |->
       CASE c = "$" -> <<"2", "4">>
         [] c = "0" -> <<"3", "0">>
         [] c = "1" -> <<"3", "1">>
         [] c = "2" -> <<"3", "2">>
         [] c = "3" -> <<"3", "3">>
         [] c = "a" -> <<"6", "1">>
         [] c = "b" -> <<"6", "2">>
         [] c = "d" -> <<"6", "4">>
         [] c = "f" -> <<"6", "6">>
         [] c = "i" -> <<"6", "9">>
         [] c = "m" -> <<"6", "d">>
         [] c = "n" -> <<"6", "e">>
         [] c = "o" -> <<"6", "f">>]

\* the hex rendering of the characters of s
HexBytes(s) ==
    [i \in 1..(2 * Len(s)) |-> HexOf[s[(i + 1) \div 2]][2 - (i % 2)]]

\* hashlib.sha256(s.encode()).hexdigest(), taken as collision-free: an
\* injective map from strings to non-empty hex strings (a fixed tag and the
\* hex rendering of the bytes stand in for the 64-digit digest).
sha256_hexdigest(s) == <<"e", "3">> \o HexBytes(s)

\* the argument of secrets.token_hex: bytes of randomness per salt
TOKEN_BYTES == 16

\* the hex characters the sampled salts are made of
SaltChars == {"0", "a"}

\* secrets.token_hex(16): sampled return values, each of two hex digits
\* per byte
Salts == {[i \in 1..(2 * TOKEN_BYTES) |-> c] : c \in SaltChars}

get_password_hash_unsalted(password, salt) ==
    salt \o <<"$">> \o sha256_hexdigest(salt)

get_password_hash_plain_prefix(password, salt) ==
    password \o <<"$">> \o sha256_hexdigest(password \o salt)

\* get_password_hash with the salt secrets.token_hex returned
get_password_hash(password, salt) ==
    LET hashed == sha256_hexdigest(password \o salt)
    IN salt \o <<"$">> \o hashed

\* The try body of verify_password: the tuple unpacking raises ValueError
\* unless split returns exactly two fields.
verify_password_try(plain_password, hashed_password) ==
    LET parts == split(hashed_password, "$")
    IN IF Len(parts) # 2
       THEN [raised |-> TRUE, ret |-> FALSE]
       ELSE [raised |-> FALSE,
             ret |-> sha256_hexdigest(plain_password \o parts[1]) = parts[2]]

verify_password_no_except(plain_password, hashed_password) ==
    verify_password_try(plain_password, hashed_password)

verify_password_accept_any(plain_password, hashed_password) ==
    LET r == verify_password_try(plain_password, hashed_password)
    IN [raised |-> FALSE, ret |-> ~r.raised]

\* verify_password: the bare except turns every exception into False.
verify_password(plain_password, hashed_password) ==
    LET r == verify_password_try(plain_password, hashed_password)
    IN IF r.raised THEN [raised |-> FALSE, ret |-> FALSE] ELSE r

-----------------------------------------------------------------------------
(* Token issuer *)

SECRET_KEY == "your-secret-key-change-in-production"

ALGORITHM == "HS256"

\* minutes of validity create_access_token adds to the issue time
EXPIRE_MINUTES == 30

\* jose.jwt.encode: the signed token, kept as what it asserts and how it
\* was signed.
jwt_encode(claims, key, algorithm) ==
    [claims |-> claims, key |-> key, alg |-> algorithm]

\* dict.update({"exp": expire}) on a copy of data
with_exp(data, expire) ==
    [k \in (DOMAIN data) \cup {"exp"} |-> IF k = "exp" THEN expire ELSE data[k]]

\* create_access_token(data, expires_delta) called when the clock reads
\* now.  expires_delta is <<>> for None and <<d>> for timedelta(minutes=d).
\* Returns the token and the caller's mapping as the call leaves it.
create_access_token(data, expires_delta, now) ==
    LET to_encode == data
        expire == now + EXPIRE_MINUTES
    IN [token |-> jwt_encode(with_exp(to_encode, expire), SECRET_KEY, ALGORITHM),
        data |-> data]

-----------------------------------------------------------------------------
(* Inputs *)

ADMIN_USERNAME == <<"a", "d", "m", "i", "n">>

ADMIN_PASSWORD == <<"a", "d", "m", "i", "n", "1", "2", "3">>

USER_PREFIX == <<"u", "s", "e", "r", ":">>

\* usernames submitted to the handlers
Usernames == {ADMIN_USERNAME, <<"b", "o", "b">>}

\* e-mail addresses submitted to registration
Emails == {<<"b", "@">>, <<"o", "@">>}

\* passwords submitted to the handlers
Passwords == {ADMIN_PASSWORD, <<"a", "$">>}

\* clock readings (minutes)
Times == 0..MaxTime

-----------------------------------------------------------------------------
(* Account store: the admins and users tables *)

MaxId(table) ==
    IF table = {} THEN 0
    ELSE CHOOSE m \in {r.id : r \in table} : \A r \in table : r.id <= m

\* the next INTEGER PRIMARY KEY the table assigns
NextId(table) == MaxId(table) + 1

\* db.query(T).filter(T.username == username): the matching rows
query_by_username(table, username) == {r \in table : r.username = username}

\* .first() of a non-empty result
first(rows) == CHOOSE r \in rows : \A q \in rows : r.id <= q.id

users_unique_ok_email_only(username, email) ==
    \A r \in users : r.email # email

\* unique=True on users.username and users.email: the insert is accepted
users_unique_ok(username, email) ==
    /\ \A r \in users : r.username # username
    /\ \A r \in users : r.email # email

\* unique=True on admins.username: the insert is accepted
admins_unique_ok(username) ==
    \A r \in admins : r.username # username

-----------------------------------------------------------------------------
(* Responses *)

\* raise HTTPException(status_code, detail)
HTTPException(status_code, detail) ==
    [status |-> status_code, body |-> [detail |-> detail]]

\* a returned dict, rendered as JSON with status 200
JSONResponse(content) == [status |-> 200, body |-> content]

\* an exception no handler catches: the framework answers 500
InternalServerError ==
    [status |-> 500, body |-> [error |-> "Internal Server Error"]]

\* a function that is no request handler returns nothing
NoResponse == [status |-> 0, body |-> <<>>]

DETAIL_USERNAME_EXISTS == "username already exists"

DETAIL_BAD_CREDENTIALS == "wrong username or password"

MESSAGE_REGISTERED == "registered"

\* what the last completed operation was and how it ended
Outcome(op, username, response, exc) ==
    [op |-> op, username |-> username, status |-> response.status, exc |-> exc]

-----------------------------------------------------------------------------
(* Login handlers: the response to a request in the current store state *)

user_login_response_enumerating(username, password, now) ==
    LET rows == query_by_username(users, username)
        user == first(rows)
    IN IF rows = {}
       THEN HTTPException(404, DETAIL_BAD_CREDENTIALS)
       ELSE IF ~verify_password(password, user.password).ret
       THEN HTTPException(401, DETAIL_BAD_CREDENTIALS)
       ELSE JSONResponse(
              [access_token |->
                   create_access_token(
                       [sub |-> USER_PREFIX \o username,
                        user_id |-> user.id], <<>>, now).token,
               token_type |-> "bearer"])

user_login_response_bare_sub(username, password, now) ==
    LET rows == query_by_username(users, username)
        user == first(rows)
    IN IF rows = {} \/ ~verify_password(password, user.password).ret
       THEN HTTPException(401, DETAIL_BAD_CREDENTIALS)
       ELSE JSONResponse(
              [access_token |->
                   create_access_token(
                       [sub |-> username,
                        user_id |-> user.id], <<>>, now).token,
               token_type |-> "bearer"])

\* POST /api/user/login
user_login_response(username, password, now) ==
    LET rows == query_by_username(users, username)
        user == first(rows)
    IN IF rows = {} \/ ~verify_password(password, user.password).ret
       THEN HTTPException(401, DETAIL_BAD_CREDENTIALS)
       ELSE JSONResponse(
              [access_token |->
                   create_access_token(
                       [sub |-> USER_PREFIX \o username,
                        user_id |-> user.id], <<>>, now).token,
               token_type |-> "bearer"])

\* POST /api/admin/login
admin_login_response(username, password, now) ==
    LET rows == query_by_username(admins, username)
        admin == first(rows)
    IN IF rows = {} \/ ~verify_password(password, admin.password).ret
       THEN HTTPException(401, DETAIL_BAD_CREDENTIALS)
       ELSE JSONResponse(
              [access_token |->
                   create_access_token([sub |-> username], <<>>, now).token,
               token_type |-> "bearer"])

-----------------------------------------------------------------------------------------------------------------------------------------------------
(* Workers.  A worker process imports the module, which runs init_admin,   *)
(* and then serves requests.  Every handler is a coroutine without an      *)
(* await, so one worker runs a call from its query to its commit without   *)
(* interruption; the calls of different workers on the shared database     *)
(* file interleave between the two statements.  serving counts the workers *)
(* that have finished the import; inflight counts, per call, the workers   *)
(* that have run its existence check and not yet its commit.               *)

INIT_ADMIN == [op |-> "init_admin", username |-> ADMIN_USERNAME]

REGISTER(username) == [op |-> "user_register", username |-> username]

InflightCalls == {INIT_ADMIN} \cup {REGISTER(u) : u \in Usernames}

RECURSIVE Sum(_, _)
Sum(f, S) ==
    IF S = {} THEN 0
    ELSE LET x == CHOOSE y \in S : TRUE IN f[x] + Sum(f, S \ {x})

\* the serving workers in the middle of a registration
Registering == Sum(inflight, {REGISTER(u) : u \in Usernames})

\* some worker process is not running and can be started
WorkerDown == serving + inflight[INIT_ADMIN] < NProcs

\* some serving worker is free to take a request
WorkerIdle == Registering < serving

\* a worker has passed the existence check of call c
Begin(c) == inflight' = [inflight EXCEPT ![c] = @ + 1]

\* a worker runs the insert and commit of call c
End(c) == inflight' = [inflight EXCEPT ![c] = @ - 1]

-----------------------------------------------------------------------------
(* Initial state: tables created and empty, no worker started *)

NoCall == [fn |-> "none"]

Init ==
    /\ users = {}
    /\ admins = {}
    /\ serving = 0
    /\ inflight = [c \in InflightCalls |-> 0]
    /\ resp = Outcome("none", <<>>, NoResponse, "")
    /\ plaintext = {}
    /\ call = NoCall

-----------------------------------------------------------------------------
(* init_admin: the existence check, then the insert and commit *)

init_admin_query_reset ==
    /\ WorkerDown
    /\ IF query_by_username(admins, ADMIN_USERNAME) # {}
       THEN /\ \E salt \in Salts :
                 admins' = {[r EXCEPT !.password =
                                 get_password_hash(ADMIN_PASSWORD, salt)] :
                            r \in admins}
            /\ resp' = Outcome("init_admin", ADMIN_USERNAME, NoResponse, "")
            /\ serving' = serving + 1
            /\ UNCHANGED inflight
       ELSE /\ Begin(INIT_ADMIN)
            /\ UNCHANGED <<admins, serving, resp>>
    /\ UNCHANGED <<users, plaintext, call>>

\* a starting worker runs the query of init_admin; when the admin exists
\* the function returns and the worker goes on to serve
init_admin_query ==
    /\ WorkerDown
    /\ IF query_by_username(admins, ADMIN_USERNAME) # {}
       THEN /\ resp' = Outcome("init_admin", ADMIN_USERNAME, NoResponse, "")
            /\ serving' = serving + 1
            /\ UNCHANGED inflight
       ELSE /\ Begin(INIT_ADMIN)
            /\ UNCHANGED <<serving, resp>>
    /\ UNCHANGED <<users, admins, plaintext, call>>

\* the insert and commit of init_admin; a rejected insert raises out of the
\* import and the worker process ends without serving
init_admin_commit ==
    /\ inflight[INIT_ADMIN] > 0
    /\ End(INIT_ADMIN)
    /\ IF admins_unique_ok(ADMIN_USERNAME)
       THEN \E salt \in Salts :
              /\ admins' = admins \cup
                     {[id |-> NextId(admins), username |-> ADMIN_USERNAME,
                       password |-> get_password_hash(ADMIN_PASSWORD, salt)]}
              /\ plaintext' = plaintext \cup
                     {[cls |-> "admin", id |-> NextId(admins),
                       password |-> ADMIN_PASSWORD]}
              /\ resp' = Outcome("init_admin", ADMIN_USERNAME, NoResponse, "")
              /\ serving' = serving + 1
       ELSE /\ resp' = Outcome("init_admin", ADMIN_USERNAME, NoResponse,
                               "IntegrityError")
            /\ UNCHANGED <<admins, plaintext, serving>>
    /\ UNCHANGED <<users, call>>

\* a serving worker that is not in a call stops (uvicorn.run returns); it
\* may be started again
worker_exit ==
    /\ WorkerIdle
    /\ serving' = serving - 1
    /\ UNCHANGED <<users, admins, inflight, resp, plaintext, call>>

-----
(* POST /api/user/register: the existence check, then the insert and commit *)

user_register_query(username) ==
    /\ WorkerIdle
    /\ IF query_by_username(users, username) # {}
       THEN /\ resp' = Outcome("user_register", username,
                               HTTPException(400, DETAIL_USERNAME_EXISTS), "")
            /\ UNCHANGED inflight
       ELSE /\ Begin(REGISTER(username))
            /\ UNCHANGED resp
    /\ UNCHANGED <<users, admins, serving, plaintext, call>>

\* email and password are first read here (line 164), so the request's
\* values for them are drawn at this step
user_register_commit(username, email, password) ==
    /\ inflight[REGISTER(username)] > 0
    /\ End(REGISTER(username))
    /\ IF users_unique_ok(username, email)
       THEN \E salt \in Salts :
              /\ users' = users \cup
                     {[id |-> NextId(users), username |-> username,
                       email |-> email,
                       password |-> get_password_hash(password, salt)]}
              /\ plaintext' = plaintext \cup
                     {[cls |-> "user", id |-> NextId(users),
                       password |-> password]}
              /\ resp' = Outcome("user_register", username,
                             JSONResponse([message |-> MESSAGE_REGISTERED]), "")
       ELSE /\ resp' = Outcome("user_register", username,
                               InternalServerError, "IntegrityError")
            /\ UNCHANGED <<users, plaintext>>
    /\ UNCHANGED <<admins, serving, call>>

-----
(* Logins *)

user_login(username, password) ==
    /\ WorkerIdle
    /\ \E now \in Times :
         resp' = Outcome("user_login", username,
                         user_login_response(username, password, now), "")
    /\ UNCHANGED <<users, admins, serving, inflight, plaintext, call>>

admin_login(username, password) ==
    /\ WorkerIdle
    /\ \E now \in Times :
         resp' = Outcome("admin_login", username,
                         admin_login_response(username, password, now), "")
    /\ UNCHANGED <<users, admins, serving, inflight, plaintext, call>>

Next ==
    \/ init_admin_query
    \/ init_admin_commit
    \/ worker_exit
    \/ \E username \in Usernames : user_register_query(username)
    \/ \E username \in Usernames, email \in Emails, password \in Passwords :
          user_register_commit(username, email, password)
    \/ \E username \in Usernames, password \in Passwords :
          user_login(username, password)
    \/ \E username \in Usernames, password \in Passwords :
          admin_login(username, password)

Spec == Init /\ [][Next]_vars

-----------------------------------------------------------------------------
(* Direct calls of the hasher and the issuer, with inputs of every shape;   *)
(* each behaviour makes one call and records it in call.                   *)

PwChars == {"a", "$", "0"}

\* plaintexts handed to the hasher
HarnessPasswords == StrsUpTo(PwChars, MaxPwLen) \cup {ADMIN_PASSWORD}

\* arbitrary stored values, well-formed or not
StoredValues == StrsUpTo(PwChars, MaxStoredLen)

\* claim mappings handed to create_access_token
DataSets ==
    {[sub |-> ADMIN_USERNAME],
     [sub |-> USER_PREFIX \o ADMIN_USERNAME, user_id |-> 1],
     [sub |-> ADMIN_USERNAME, exp |-> 7]}

\* expires_delta arguments: None, or a number of minutes
Deltas == {<<>>} \cup {<<d>> : d \in {5, 60}}

\* verify_password(plain, get_password_hash(origin)) for a drawn salt
call_verify_password_of_hash ==
    /\ call = NoCall
    /\ \E plain \in HarnessPasswords, origin \in HarnessPasswords, salt \in Salts :
         /\ call' = [fn |-> "verify_password_of_hash", plain |-> plain,
                     origin |-> origin, salt |-> salt,
                     stored |-> get_password_hash(origin, salt),
                     result |-> verify_password(plain,
                                                get_password_hash(origin, salt))]
         /\ UNCHANGED <<users, admins, serving, inflight, resp, plaintext>>

\* verify_password(plain, stored) for an arbitrary stored value
call_verify_password ==
    /\ call = NoCall
    /\ \E plain \in HarnessPasswords, stored \in StoredValues :
         /\ call' = [fn |-> "verify_password", plain |-> plain, stored |-> stored,
                     result |-> verify_password(plain, stored)]
         /\ UNCHANGED <<users, admins, serving, inflight, resp, plaintext>>

\* create_access_token(data, expires_delta) at clock reading now
call_create_access_token ==
    /\ call = NoCall
    /\ \E data \in DataSets, expires_delta \in Deltas, now \in Times :
         /\ call' = [fn |-> "create_access_token", data |-> data,
                     expires_delta |-> expires_delta, now |-> now,
                     result |-> create_access_token(data, expires_delta, now)]
         /\ UNCHANGED <<users, admins, serving, inflight, resp, plaintext>>

NextCalls ==
    \/ call_verify_password_of_hash
    \/ call_verify_password
    \/ call_create_access_token

SpecCalls == Init /\ [][NextCalls]_vars

-----------------------------------------------------------------------------
(* Properties *)

\* the plaintext the stored secret of record id of class cls was derived from
PlainOf(cls, id) ==
    (CHOOSE g \in plaintext : g.cls = cls /\ g.id = id).password

\* a stored secret of the form <hex-salt>$<hex-digest>
WellFormedSecret(s) ==
    /\ Count(s, "$") = 1
    /\ LET parts == split(s, "$")
       IN /\ Len(parts) = 2
          /\ Len(parts[1]) = 2 * TOKEN_BYTES /\ IsHex(parts[1])
          /\ Len(parts[2]) > 0 /\ IsHex(parts[2])

\* C1: verify_password(p, get_password_hash(q)) is true exactly when p = q,
\* for every salt the hasher may draw, and it does not raise.
C1_VerifyIffSamePlaintext ==
    call.fn = "verify_password_of_hash" =>
        /\ ~call.result.raised
        /\ call.result.ret <=> (call.plain = call.origin)

C1_Witness ==
    /\ call.fn = "verify_password_of_hash"
    /\ call.plain = call.origin
    /\ Len(call.plain) > 0
    /\ call.result.ret

\* C2: a stored value without exactly one '$' (none, several, or the empty
\* value) makes verify_password return False without raising.
C2_MalformedNeverMatches ==
    (call.fn = "verify_password" /\ Count(call.stored, "$") # 1) =>
        (~call.result.raised /\ ~call.result.ret)

C2_Witness ==
    /\ call.fn = "verify_password"
    /\ Count(call.stored, "$") = 2
    /\ ~call.result.raised
    /\ ~call.result.ret

\* C3: a registration whose insert the store rejects for a uniqueness
\* violation is answered with the 400 registration failure.
C3_RejectedInsertAnswered400 ==
    (resp.op = "user_register" /\ resp.exc = "IntegrityError") =>
        resp.status = 400

\* C4: no two User records share a username and no two Admin records share
\* a username; a User and an Admin may share one.
C4_UsernamesUniquePerClass ==
    /\ \A r1 \in users, r2 \in users : r1.username = r2.username => r1 = r2
    /\ \A r1 \in admins, r2 \in admins : r1.username = r2.username => r1 = r2

C4_Witness ==
    \E u \in users, a \in admins :
        /\ u.username = a.username
        /\ Cardinality(users) = 2

\* C5: in either login endpoint, the response for a username without a
\* record equals the response for an existing username with a wrong
\* password, for the same submitted password and clock reading.
C5_NoUsernameEnumeration ==
    \A u1 \in Usernames, u2 \in Usernames, p \in Passwords, now \in Times :
      /\ ( /\ query_by_username(users, u1) = {}
           /\ \E r \in users : r.username = u2 /\ PlainOf("user", r.id) # p )
         => user_login_response(u1, p, now) = user_login_response(u2, p, now)
      /\ ( /\ query_by_username(admins, u1) = {}
           /\ \E r \in admins : r.username = u2 /\ PlainOf("admin", r.id) # p )
         => admin_login_response(u1, p, now) = admin_login_response(u2, p, now)

C5_Witness ==
    /\ resp.op = "user_login"
    /\ resp.status = 401
    /\ query_by_username(users, resp.username) # {}
    /\ \E u \in Usernames : query_by_username(users, u) = {}

\* C6: the token's claims are data plus exp = issue time + window, the
\* window being expires_delta when given and 30 minutes otherwise; the
\* caller's mapping is unchanged.
C6_ExpiryHonoursDelta ==
    call.fn = "create_access_token" =>
        LET window == IF call.expires_delta = <<>> THEN EXPIRE_MINUTES
                      ELSE call.expires_delta[1]
        IN /\ call.result.token.claims = with_exp(call.data, call.now + window)
           /\ call.result.data = call.data

\* C7: a login answers with a bearer token exactly when a record of the
\* same class has the username and the password is the plaintext its
\* secret was derived from; otherwise it answers 401 without a token.
C7_LoginIffCredentialsMatch ==
    \A u \in Usernames, p \in Passwords, now \in Times :
      /\ LET r == user_login_response(u, p, now)
             match == \E row \in users :
                         row.username = u /\ PlainOf("user", row.id) = p
         IN IF match
            THEN r.status = 200 /\ "access_token" \in DOMAIN r.body
            ELSE r.status = 401 /\ "access_token" \notin DOMAIN r.body
      /\ LET r == admin_login_response(u, p, now)
             match == \E row \in admins :
                         row.username = u /\ PlainOf("admin", row.id) = p
         IN IF match
            THEN r.status = 200 /\ "access_token" \in DOMAIN r.body
            ELSE r.status = 401 /\ "access_token" \notin DOMAIN r.body

C7_Witness ==
    /\ resp.op = "admin_login"
    /\ resp.status = 401
    /\ resp.username = ADMIN_USERNAME
    /\ \E a \in admins : a.username = ADMIN_USERNAME
    /\ \E u \in users :
         u.username = ADMIN_USERNAME /\ PlainOf("user", u.id) # ADMIN_PASSWORD

\* the token a successful login response carries
claims_of(response) == response.body.access_token.claims

\* the claims of the tokens user login issues in the current store state,
\* over every request
UserLoginClaims ==
    {claims_of(r) :
       r \in {x \in {user_login_response(u, p, now) :
                        u \in Usernames, p \in Passwords, now \in Times} :
                x.status = 200}}

\* what C8 asks of the tokens the two login endpoints issue in the current
\* store state, for every request
TokensIdentifyAccountClass ==
    LET userSubs == {c.sub : c \in UserLoginClaims}
    IN \A u \in Usernames, p \in Passwords, now \in Times :
         LET ru == user_login_response(u, p, now)
             ra == admin_login_response(u, p, now)
         IN /\ ru.status = 200 =>
                 /\ claims_of(ru).sub = USER_PREFIX \o u
                 /\ \E row \in users :
                      row.username = u /\ claims_of(ru).user_id = row.id
            /\ ra.status = 200 =>
                 /\ claims_of(ra).sub = u
                 /\ "user_id" \notin DOMAIN claims_of(ra)
                 /\ claims_of(ra).sub \notin userSubs

\* C8: a user-login token carries sub = "user:" + username and the id of
\* the matched User record as user_id; an admin-login token carries the
\* bare username as sub and no user_id; and no admin-login token has the
\* sub of a user-login token.  Records are never removed or rewritten, so a
\* token issued in an earlier state is issued to the same request in the
\* current one and the comparison covers the tokens issued so far.
C8_TokenIdentifiesAccountClass ==
    /\ []TokensIdentifyAccountClass
    /\ [][users \subseteq users' /\ admins \subseteq admins']_vars

C8_Witness ==
    /\ resp.op = "user_login"
    /\ resp.status = 200
    /\ resp.username = ADMIN_USERNAME
    /\ \E a \in admins : a.username = ADMIN_USERNAME
    /\ \E row \in users : row.username = ADMIN_USERNAME /\ row.id = 2

\* C9: once an init_admin call has returned there is exactly one Admin
\* record named admin, and a step taken while that record exists leaves the
\* admins table, the record's stored secret included, unchanged.
C9_InitAdminIdempotent ==
    /\ [](resp.op = "init_admin" =>
            Cardinality(query_by_username(admins, ADMIN_USERNAME)) = 1)
    /\ [][query_by_username(admins, ADMIN_USERNAME) # {} => admins' = admins]_vars

C9_Witness ==
    /\ resp.op = "init_admin"
    /\ resp.exc = ""
    /\ inflight[INIT_ADMIN] = 0
    /\ Cardinality(admins) = 1

\* C10: every stored password is a well-formed secret, differs from the
\* plaintext it was derived from, and never sends verify_password into its
\* except branch.
C10_StoredSecretsWellFormed ==
    /\ \A r \in users :
         /\ WellFormedSecret(r.password)
         /\ r.password # PlainOf("user", r.id)
         /\ \A p \in Passwords : ~verify_password_try(p, r.password).raised
    /\ \A r \in admins :
         /\ WellFormedSecret(r.password)
         /\ r.password # PlainOf("admin", r.id)
         /\ \A p \in Passwords : ~verify_password_try(p, r.password).raised

C10_Witness ==
    /\ admins # {}
    /\ \E r \in users : Count(PlainOf("user", r.id), "$") > 0

====
